---- MODULE Spec2Model ----
(***************************************************************************)
(* Entry-point lowering of rustc_codegen_spirv (codegen_cx/entry.rs):      *)
(* entry_stub, shader_entry_stub, declare_parameter, get_storage_class and *)
(* kernel_entry_stub, as a state machine over the builder's emission log   *)
(* and the session's diagnostics.                                          *)
(***************************************************************************)
EXTENDS Integers, Sequences, FiniteSets, TLC

(***************************************************************************)
(* Bounds of the model.                                                    *)
(***************************************************************************)
MaxParams == 3
MaxLoc == 1
MaxAttrs == 2
MaxConsts == 3
MaxKernelArgs == 2
MaxModes == 2
MaxGuardParams == 2
MaxSlotParams == 2
MaxSlots == 4
MaxEntryPoints == 2

(***************************************************************************)
(* u32 and usize values.  A u32 is kept as two 16-bit limbs and a usize    *)
(* (eval_usize returns 64 bits) as a u32 plus the bits above it, so that   *)
(* `+ 1`, `>=` and `as u32` are computed on the full 32-bit width.         *)
(***************************************************************************)
Limb == 65536

U32(n) == [hi |-> n \div Limb, lo |-> n % Limb]

U32_MAX == [hi |-> Limb - 1, lo |-> Limb - 1]

Usize(top, n) == [top |-> top, hi |-> n \div Limb, lo |-> n % Limb]

USIZE_U32_MAX == [top |-> 0, hi |-> Limb - 1, lo |-> Limb - 1]

\* `x as u32` on a usize: the low 32 bits.
AsU32(c) == [hi |-> c.hi, lo |-> c.lo]

\* a >= b on u32.
U32Geq(a, b) == a.hi > b.hi \/ (a.hi = b.hi /\ a.lo >= b.lo)

U32Lt(a, b) == ~U32Geq(a, b)

\* a + 1 on u32 without overflow checks (wrapping).
U32WrappingInc(a) ==
    IF a.lo < Limb - 1 THEN [hi |-> a.hi, lo |-> a.lo + 1]
    ELSE IF a.hi < Limb - 1 THEN [hi |-> a.hi + 1, lo |-> 0]
    ELSE [hi |-> 0, lo |-> 0]

(***************************************************************************)
(* SpirvAttribute values, as parse_attrs yields them (attachment order).   *)
(***************************************************************************)
AttrStorageClass(sc) == [a |-> "StorageClass", sc |-> sc]
AttrBind == [a |-> "Bind"]
AttrBuiltin(b) == [a |-> "Builtin", builtin |-> b]
AttrFlat == [a |-> "Flat"]
AttrBlock == [a |-> "Block"]

(***************************************************************************)
(* rustc types (TyKind) as far as get_storage_class looks at them.         *)
(***************************************************************************)
TyRef(m, pointee) == [kind |-> "Ref", mutbl |-> m, pointee |-> pointee]
TyAdt(attrs, consts, types) ==
    [kind |-> "Adt", attrs |-> attrs, consts |-> consts, types |-> types]
TySlice(elem) == [kind |-> "Slice", elem |-> elem]
TyArray(elem) == [kind |-> "Array", elem |-> elem]
TyOther == [kind |-> "Float"]

(***************************************************************************)
(* SpirvBinding and the resolver's Option<(StorageClass, SpirvBinding)>.   *)
(***************************************************************************)
DescriptorSet(set, binding) == [b |-> "DescriptorSet", set |-> set, binding |-> binding]
Location(n) == [b |-> "Location", location |-> n]
InferredLocation == [b |-> "InferredLocation"]
Builtin == [b |-> "Builtin"]
PushConstant == [b |-> "PushConstant"]
\* No binding yet (no variable was declared).
NoBinding == [b |-> "none"]

None == [opt |-> "None"]
Some(sc, binding) == [opt |-> "Some", storage_class |-> sc, binding |-> binding]
\* Option::unwrap on None: the compiler panics.
Panicked == [opt |-> "Panic"]

\* parse_storage_class_attr: the first StorageClass attribute of an ADT.
RECURSIVE ParseStorageClassAttrFrom(_, _)
ParseStorageClassAttrFrom(attrs, i) ==
    IF i > Len(attrs) THEN "none"
    ELSE IF attrs[i].a = "StorageClass" THEN attrs[i].sc
    ELSE ParseStorageClassAttrFrom(attrs, i + 1)

parse_storage_class_attr(adt) == ParseStorageClassAttrFrom(adt.attrs, 1)

\* A payload match that takes an undirected nominal payload for a uniform.
PayloadStorageClassDefault(payload) ==
    CASE payload.kind = "Adt" ->
            IF parse_storage_class_attr(payload) = "none" THEN "Uniform"
            ELSE parse_storage_class_attr(payload)
      [] payload.kind \in {"Slice", "Array"} ->
            IF payload.elem.kind = "Adt"
            THEN parse_storage_class_attr(payload.elem)
            ELSE "none"
      [] OTHER -> "none"

\* The match on the first type parameter of a Bind type.
PayloadStorageClass(payload) ==
    CASE payload.kind = "Adt" -> parse_storage_class_attr(payload)
      [] payload.kind \in {"Slice", "Array"} ->
            IF payload.elem.kind = "Adt"
            THEN parse_storage_class_attr(payload.elem)
            ELSE "none"
      [] OTHER -> "none"

\* An Input or Output override: exactly one const parameter gives Location.
LocationFromConsts(sc, consts) ==
    IF Len(consts) = 1 THEN Some(sc, Location(AsU32(consts[1]))) ELSE None

\* The loop over the attributes of the parameter's ADT, from attribute i on.
RECURSIVE AttrLoop(_, _)
AttrLoop(ty, i) ==
    IF i > Len(ty.attrs) THEN None
    ELSE LET attr == ty.attrs[i] IN
      CASE attr = AttrStorageClass("Output") -> LocationFromConsts("Output", ty.consts)
        [] attr = AttrStorageClass("Input") -> LocationFromConsts("Input", ty.consts)
        [] attr = AttrStorageClass("PushConstant") -> Some("PushConstant", PushConstant)
        [] attr = AttrBind ->
             IF Len(ty.consts) # 2 THEN None
             ELSE IF ty.types = <<>> THEN Panicked
             ELSE LET storage_class == PayloadStorageClass(ty.types[1])
                      descriptor_set == DescriptorSet(AsU32(ty.consts[1]), AsU32(ty.consts[2]))
                  IN  IF storage_class # "none"
                      THEN Some(storage_class, descriptor_set)
                      ELSE AttrLoop(ty, i + 1)
        [] OTHER -> AttrLoop(ty, i + 1)

\* A resolver that walks the directives from the last one attached.
get_storage_class_last_first(ty) ==
    CASE ty.kind = "Adt" ->
            AttrLoop([ty EXCEPT !.attrs =
                        [k \in 1..Len(ty.attrs) |-> ty.attrs[Len(ty.attrs) + 1 - k]]], 1)
      [] ty.kind = "Ref" /\ ty.mutbl = "Not" -> Some("Input", InferredLocation)
      [] ty.kind = "Ref" /\ ty.mutbl = "Mut" -> Some("Output", InferredLocation)
      [] OTHER -> None

\* A resolver that looks through a reference at the directives of its pointee.
get_storage_class_deref(ty) ==
    CASE ty.kind = "Adt" -> AttrLoop(ty, 1)
      [] ty.kind = "Ref" /\ ty.pointee.kind = "Adt" -> AttrLoop(ty.pointee, 1)
      [] ty.kind = "Ref" /\ ty.mutbl = "Not" -> Some("Input", InferredLocation)
      [] ty.kind = "Ref" /\ ty.mutbl = "Mut" -> Some("Output", InferredLocation)
      [] OTHER -> None

get_storage_class(ty) ==
    CASE ty.kind = "Adt" -> AttrLoop(ty, 1)
      [] ty.kind = "Ref" /\ ty.mutbl = "Not" -> Some("Input", InferredLocation)
      [] ty.kind = "Ref" /\ ty.mutbl = "Mut" -> Some("Output", InferredLocation)
      [] OTHER -> None

(***************************************************************************)
(* State.                                                                  *)
(***************************************************************************)
VARIABLES
    pc,                     \* where the compiler is in entry_stub
    overflow_checks,        \* whether the compiler was built with overflow checks
    entry,                  \* the entry point being lowered (instance, fn_abi, ...)
    module,                 \* the builder's emissions, in call order
    next_id,                \* the builder's next result id
    diags,                  \* the session's diagnostics, in report order
    new_spirv,              \* shader_entry_stub: version > (1, 3)
    idx,                    \* shader_entry_stub: the loop's position in hir_params
    arg_types,              \* shader_entry_stub: how many type slots the iterator has yielded
    decoration_locations,   \* shader_entry_stub: HashMap<StorageClass, u32>
    arguments,              \* shader_entry_stub: Vec of argument ids
    interface,              \* shader_entry_stub: Vec of interface variable ids
    rta_lens,               \* shader_entry_stub: Vec of (len_idx, len_t, member_idx)
    fn_id,                  \* entry_stub: the stub function's id
    declared,               \* per processed parameter: what declare_parameter did
    rs_ty,                  \* resolver check: the type handed to get_storage_class
    rs_out,                 \* resolver check: what get_storage_class returned
    compiled                \* the entry points this compilation is through with

vars == <<pc, overflow_checks, entry, module, next_id, diags, new_spirv, idx,
          arg_types, decoration_locations, arguments, interface, rta_lens,
          fn_id, declared, rs_ty, rs_out, compiled>>

\* arguments.push(u32::MAX): the placeholder of a length slot (ids are small).
PLACEHOLDER == -1

(***************************************************************************)
(* Builder emissions (emit_global()): one record per call.                 *)
(***************************************************************************)
OpVariable(id, ty, sc) == [op |-> "OpVariable", id |-> id, ty |-> ty, storage_class |-> sc]
OpName(id, name) == [op |-> "OpName", id |-> id, name |-> name]
OpDecorate(id, dec, operand) == [op |-> "OpDecorate", id |-> id, dec |-> dec, operand |-> operand]
OpFunction(id, ret, fty) == [op |-> "OpFunction", id |-> id, ret |-> ret, fty |-> fty]
OpFunctionParameter(id, ty) == [op |-> "OpFunctionParameter", id |-> id, ty |-> ty]
OpLabel(id) == [op |-> "OpLabel", id |-> id]
OpArrayLength(id, ty, ptr, member) ==
    [op |-> "OpArrayLength", id |-> id, ty |-> ty, ptr |-> ptr, member |-> member]
OpFunctionCall(id, ret, args) == [op |-> "OpFunctionCall", id |-> id, ret |-> ret, args |-> args]
OpReturn == [op |-> "OpReturn"]
OpReturnValue(v) == [op |-> "OpReturnValue", value |-> v]
OpFunctionEnd == [op |-> "OpFunctionEnd"]
OpEntryPoint(model, fn, name, iface) ==
    [op |-> "OpEntryPoint", model |-> model, fn |-> fn, name |-> name, interface |-> iface]
OpExecutionMode(fn, mode, extra) ==
    [op |-> "OpExecutionMode", fn |-> fn, mode |-> mode, extra |-> extra]

\* SpirvType values of argument type slots.
Void == [t |-> "Void"]
Integer == [t |-> "Integer"]
Adt(sized, nfields) == [t |-> "Adt", sized |-> sized, nfields |-> nfields]
Pointer(pointee) == [t |-> "Pointer", pointee |-> pointee]
Function(ret, args) == [t |-> "Function", return_type |-> ret, arguments |-> args]

\* Diagnostics: the message and the span it is attributed to.
Diag(msg, span) == [msg |-> msg, span |-> span]
ParamSpan(i) == <<"param", i>>
FnSpan == <<"fn">>

(***************************************************************************)
(* ABI Compatibility Guard: entry_stub's check of each PassMode.           *)
(***************************************************************************)
ArgAttributes(pointee_size, regular) == [pointee_size |-> pointee_size, regular |-> regular]
Direct == [mode |-> "Direct"]
Pair(a, b) == [mode |-> "Pair", a |-> a, b |-> b]
Ignore == [mode |-> "Ignore"]
Indirect == [mode |-> "Indirect"]

\* The chain without its third pattern (fields before the unsized member).
ParamModeAcceptedNoTail(m) ==
    \/ m.mode = "Direct"
    \/ (m.mode = "Pair" /\ m.a.pointee_size = 0 /\ m.b.regular = {})

\* The three accepted patterns of the if/else-if chain over abi.mode.
ParamModeAccepted(m) ==
    \/ m.mode = "Direct"
    \/ (m.mode = "Pair" /\ m.a.pointee_size = 0 /\ m.b.regular = {})
    \/ (m.mode = "Pair" /\ m.b.pointee_size = 0)

RetModeAccepted(m) == m.mode = "Ignore"

Min(a, b) == IF a < b THEN a ELSE b

\* The number of (abi, param) pairs a zip of the two lists yields.
Zipped(e) == Min(Len(e.fn_abi.args), Len(e.params))

RECURSIVE GuardParams(_, _, _)
GuardParams(e, i, ds) ==
    IF i > Zipped(e) THEN ds
    ELSE GuardParams(e, i + 1,
            IF ParamModeAccepted(e.fn_abi.args[i]) THEN ds
            ELSE Append(ds, Diag("PassMode invalid for entry point parameter", ParamSpan(i))))

GuardRet(e, ds) ==
    IF RetModeAccepted(e.fn_abi.ret) THEN ds
    ELSE Append(ds, Diag("PassMode invalid for entry point return type", FnSpan))

(***************************************************************************)
(* declare_parameter.                                                      *)
(***************************************************************************)
\* decoration_locations.entry(storage_class).or_insert(0)
CursorOf(locs, sc) == IF sc \in DOMAIN locs THEN locs[sc] ELSE U32(0)

\* One counter for all storage classes.
SetCursorShared(locs, sc, v) == [k \in DOMAIN locs \cup {sc} |-> v]

SetCursor(locs, sc, v) ==
    [k \in DOMAIN locs \cup {sc} |-> IF k = sc THEN v ELSE locs[k]]

\* The comparison written as `>`.
LocationAcceptedStrict(location, last_location) ==
    U32Geq(location, last_location) /\ location # last_location

\* `location >= *last_location`
LocationAccepted(location, last_location) == U32Geq(location, last_location)

\* `x + 1` on a u32 panics when the build checks overflow and x is u32::MAX.
IncPanics(x) == overflow_checks /\ x = U32_MAX

\* `*last_location = location + 1`
CursorAfterExplicit(location) == U32WrappingInc(location)

\* A cursor that is read but never advanced.
CursorAfterInferredStuck(location) == location

\* `*location += 1`
CursorAfterInferred(location) == U32WrappingInc(location)

\* A loop in which a built-in attribute decorates but leaves the binding alone.
ParamAttrLoopKeepsBinding(attrs, i, variable, m, spirv_binding) ==
    [module |-> m \o
        [k \in 1..Len(SelectSeq(attrs, LAMBDA a : a.a \in {"Builtin", "Flat"})) |->
            LET a == SelectSeq(attrs, LAMBDA x : x.a \in {"Builtin", "Flat"})[k]
            IN  IF a.a = "Builtin" THEN OpDecorate(variable, "BuiltIn", <<a.builtin>>)
                ELSE OpDecorate(variable, "Flat", <<>>)],
     spirv_binding |-> spirv_binding]

\* The loop over the parameter's own attributes: Builtin and Flat decorate.
RECURSIVE ParamAttrLoop(_, _, _, _, _)
ParamAttrLoop(attrs, i, variable, m, spirv_binding) ==
    IF i > Len(attrs) THEN [module |-> m, spirv_binding |-> spirv_binding]
    ELSE CASE attrs[i].a = "Builtin" ->
                ParamAttrLoop(attrs, i + 1, variable,
                    Append(m, OpDecorate(variable, "BuiltIn", <<attrs[i].builtin>>)),
                    Builtin)
           [] attrs[i].a = "Flat" ->
                ParamAttrLoop(attrs, i + 1, variable,
                    Append(m, OpDecorate(variable, "Flat", <<>>)),
                    spirv_binding)
           [] OTHER -> ParamAttrLoop(attrs, i + 1, variable, m, spirv_binding)

\* The match on spirv_binding.  cx is [module, diags, locs].
ApplyBinding(variable, storage_class, spirv_binding, span, cx) ==
    CASE spirv_binding.b = "DescriptorSet" ->
            [cx EXCEPT !.module =
                Append(Append(@, OpDecorate(variable, "DescriptorSet", <<spirv_binding.set>>)),
                       OpDecorate(variable, "Binding", <<spirv_binding.binding>>))]
      [] spirv_binding.b = "Location" ->
            LET location == spirv_binding.location
                last_location == CursorOf(cx.locs, storage_class)
            IN  IF LocationAccepted(location, last_location)
                THEN IF IncPanics(location)
                     THEN [cx EXCEPT !.outcome = "panic",
                                     !.locs = SetCursor(@, storage_class, last_location)]
                     ELSE [cx EXCEPT
                             !.locs = SetCursor(@, storage_class, CursorAfterExplicit(location)),
                             !.module = Append(@, OpDecorate(variable, "Location", <<location>>))]
                ELSE [cx EXCEPT
                        !.locs = SetCursor(@, storage_class, last_location),
                        !.diags = Append(@, Diag("Locations must appear in ascending order", span)),
                        !.module = Append(@, OpDecorate(variable, "Location", <<location>>))]
      [] spirv_binding.b = "InferredLocation" ->
            LET location == CursorOf(cx.locs, storage_class)
                decorated == [cx EXCEPT
                    !.module = Append(@, OpDecorate(variable, "Location", <<location>>))]
            IN  IF IncPanics(location)
                THEN [decorated EXCEPT !.outcome = "panic",
                                       !.locs = SetCursor(@, storage_class, location)]
                ELSE [decorated EXCEPT
                        !.locs = SetCursor(@, storage_class, CursorAfterInferred(location))]
      [] OTHER -> cx

\* Lines 216-280: the variable, its name, its decorations and its binding.
\* blank is [outcome, module, next_id, diags, locs, ...] before the variable.
DeclareVariable(arg, hir_param, span, storage_class, binding, blank) ==
    LET variable == blank.next_id
        m1 == Append(blank.module, OpVariable(variable, arg, storage_class))
        m2 == IF hir_param.ident # "none"
              THEN Append(m1, OpName(variable, hir_param.ident))
              ELSE m1
        after_attrs == ParamAttrLoop(hir_param.attrs, 1, variable, m2, binding)
        spirv_binding == after_attrs.spirv_binding
    IN  ApplyBinding(variable, storage_class, spirv_binding, span,
            [blank EXCEPT !.module = after_attrs.module,
                          !.next_id = variable + 1,
                          !.variable = variable,
                          !.storage_class = storage_class,
                          !.spirv_binding = spirv_binding])

\* An unresolvable parameter reported with span_err and declared all the same.
declare_parameter_nonfatal(arg, hir_param, span, m, nid, ds, locs) ==
    LET resolved == get_storage_class(hir_param.ty)
        blank == [outcome |-> "ok", module |-> m, next_id |-> nid, diags |-> ds,
                  locs |-> locs, variable |-> 0, storage_class |-> "none",
                  resolved |-> resolved, spirv_binding |-> NoBinding]
    IN  CASE resolved = None ->
                DeclareVariable(arg, hir_param, span, "Private", NoBinding,
                    [blank EXCEPT !.diags = Append(ds, Diag("invalid entry param type", span))])
          [] resolved = Panicked -> [blank EXCEPT !.outcome = "panic"]
          [] OTHER -> DeclareVariable(arg, hir_param, span, resolved.storage_class,
                                      resolved.binding, blank)

\* declare_parameter(arg, hir_param, arg_abi, decoration_locations) on the
\* builder m with next id nid, diagnostics ds and cursors locs.  The result's
\* outcome is "ok", "fatal" (span_fatal) or "panic".
declare_parameter(arg, hir_param, span, m, nid, ds, locs) ==
    LET resolved == get_storage_class(hir_param.ty)
        blank == [outcome |-> "ok", module |-> m, next_id |-> nid, diags |-> ds,
                  locs |-> locs, variable |-> 0, storage_class |-> "none",
                  resolved |-> resolved, spirv_binding |-> NoBinding]
    IN  CASE resolved = None ->
                [blank EXCEPT !.outcome = "fatal",
                              !.diags = Append(ds, Diag("invalid entry param type", span))]
          [] resolved = Panicked -> [blank EXCEPT !.outcome = "panic"]
          [] OTHER -> DeclareVariable(arg, hir_param, span, resolved.storage_class,
                                      resolved.binding, blank)

(***************************************************************************)
(* entry_stub, shader_entry_stub and kernel_entry_stub as actions.         *)
(***************************************************************************)
NoEntry == [local |-> FALSE, name |-> "none"]
NoLocations == [k \in {} |-> U32(0)]
Unset == [opt |-> "Unset"]

\* Tuple comparison `version > (major, minor)`.
VersionGt(v, w) == v[1] > w[1] \/ (v[1] = w[1] /\ v[2] > w[2])

\* An entry_stub that returns once the guard has reported something.
EntryStubGuarded(Entries) ==
    /\ pc = "idle"
    /\ \E e \in Entries :
        /\ entry' = e
        /\ IF ~e.local
           THEN /\ diags' = Append(diags, Diag("Cannot declare as an entry point", FnSpan))
                /\ pc' = "done"
           ELSE /\ diags' = diags \o GuardRet(e, GuardParams(e, 1, <<>>))
                /\ pc' = IF GuardRet(e, GuardParams(e, 1, <<>>)) # <<>> THEN "done"
                         ELSE IF e.execution_model = "Kernel" THEN "kernel" ELSE "shader"
    /\ UNCHANGED <<compiled, overflow_checks, module, next_id, new_spirv, idx, arg_types,
                   decoration_locations, arguments, interface, rta_lens, fn_id,
                   declared, rs_ty, rs_out>>

\* Lines 32-93: the local-definition check, the guard over the parameter
\* and return ABIs, and the dispatch on the execution model.
EntryStub(Entries) ==
    /\ pc = "idle"
    /\ \E e \in Entries :
        /\ entry' = e
        /\ IF ~e.local
           THEN /\ diags' = Append(diags, Diag("Cannot declare as an entry point", FnSpan))
                /\ pc' = "done"
           ELSE /\ diags' = diags \o GuardRet(e, GuardParams(e, 1, <<>>))
                /\ pc' = IF e.execution_model = "Kernel" THEN "kernel" ELSE "shader"
    /\ UNCHANGED <<compiled, overflow_checks, module, next_id, new_spirv, idx, arg_types,
                   decoration_locations, arguments, interface, rta_lens, fn_id,
                   declared, rs_ty, rs_out>>

\* A prologue that goes on with the cursors the last lowering left behind.
ShaderBeginKeepsLocations ==
    /\ pc = "shader"
    /\ IF entry.entry_func.t # "Function"
       THEN /\ diags' = Append(diags, Diag("Invalid entry_stub type", <<"none">>))
            /\ pc' = "aborted"
            /\ UNCHANGED <<new_spirv, idx, arg_types, decoration_locations,
                           arguments, interface, rta_lens, declared>>
       ELSE /\ pc' = "shader_loop"
            /\ new_spirv' = VersionGt(entry.version, <<1, 3>>)
            /\ idx' = 1
            /\ arg_types' = 0
            /\ decoration_locations' = decoration_locations
            /\ arguments' = <<>>
            /\ interface' = <<>>
            /\ rta_lens' = <<>>
            /\ declared' = <<>>
            /\ UNCHANGED diags
    /\ UNCHANGED <<compiled, overflow_checks, entry, module, next_id, fn_id, rs_ty, rs_out>>

\* Lines 112-135: the lookup of the real function's type and the locals.
ShaderBegin ==
    /\ pc = "shader"
    /\ IF entry.entry_func.t # "Function"
       THEN /\ diags' = Append(diags, Diag("Invalid entry_stub type", <<"none">>))
            /\ pc' = "aborted"
            /\ UNCHANGED <<new_spirv, idx, arg_types, decoration_locations,
                           arguments, interface, rta_lens, declared>>
       ELSE /\ pc' = "shader_loop"
            /\ new_spirv' = VersionGt(entry.version, <<1, 3>>)
            /\ idx' = 1
            /\ arg_types' = 0
            /\ decoration_locations' = NoLocations
            /\ arguments' = <<>>
            /\ interface' = <<>>
            /\ rta_lens' = <<>>
            /\ declared' = <<>>
            /\ UNCHANGED diags
    /\ UNCHANGED <<compiled, overflow_checks, entry, module, next_id, fn_id, rs_ty, rs_out>>

\* An interface test that forgets the outputs.
InInterfaceInputOnly(nspv, storage_class) == nspv \/ storage_class = "Input"

\* `SPIR-V <= v1.3 only includes Input and Output in the interface.`
InInterface(nspv, storage_class) ==
    nspv \/ storage_class = "Input" \/ storage_class = "Output"

\* SpirvType::Pointer { pointee } with pointee SpirvType::Adt { size: None, .. }
IsUnsizedAdtPointer(t) ==
    t.t = "Pointer" /\ t.pointee.t = "Adt" /\ ~t.pointee.sized

\* The field count taken for the last field's index.
LastFieldIndexOffByOne(adt) == adt.nfields

\* `field_types.len() as u32 - 1`
LastFieldIndex(adt) == adt.nfields - 1

\* What one parameter leaves in `declared`.
Declared(i, r, before) ==
    [param |-> i, outcome |-> r.outcome, variable |-> r.variable,
     storage_class |-> r.storage_class, resolved |-> r.resolved,
     spirv_binding |-> r.spirv_binding, before |-> before, after |-> r.locs]

\* span_fatal(hir_param.span, "... missing type")
MissingType(i) == Diag("Invalid function arguments: missing type", ParamSpan(i))

\* span_fatal(hir_param.span, "... fat pointer missing length")
MissingLength(i) ==
    Diag("Invalid function arguments: fat pointer missing length", ParamSpan(i))

\* Lines 136-177: one iteration of the loop over (hir_param, arg_abi).
ShaderParam ==
    /\ pc = "shader_loop"
    /\ idx <= Zipped(entry)
    /\ LET slots == entry.entry_func.arguments
           hir_param == entry.params[idx]
       IN  IF arg_types + 1 > Len(slots)
           THEN /\ diags' = Append(diags, MissingType(idx))
                /\ pc' = "aborted"
                /\ UNCHANGED <<module, next_id, idx, arg_types, decoration_locations,
                               arguments, interface, rta_lens, declared>>
           ELSE LET arg_t == slots[arg_types + 1]
                    r == declare_parameter(arg_t, hir_param, ParamSpan(idx), module,
                                           next_id, diags, decoration_locations)
                    pushed == Append(arguments, r.variable)
                    unsized == IsUnsizedAdtPointer(arg_t)
                    no_len == unsized /\ arg_types + 2 > Len(slots)
                IN  /\ module' = r.module
                    /\ next_id' = r.next_id
                    /\ decoration_locations' = r.locs
                    /\ declared' = Append(declared, Declared(idx, r, decoration_locations))
                    /\ IF r.outcome # "ok"
                       THEN /\ pc' = "aborted"
                            /\ diags' = r.diags
                            /\ arg_types' = arg_types + 1
                            /\ UNCHANGED <<idx, arguments, interface, rta_lens>>
                       ELSE /\ interface' = IF InInterface(new_spirv, r.storage_class)
                                            THEN Append(interface, r.variable)
                                            ELSE interface
                            /\ IF no_len
                               THEN /\ diags' = Append(r.diags, MissingLength(idx))
                                    /\ pc' = "aborted"
                                    /\ arguments' = pushed
                                    /\ arg_types' = arg_types + 1
                                    /\ UNCHANGED <<idx, rta_lens>>
                               ELSE /\ diags' = r.diags
                                    /\ pc' = "shader_loop"
                                    /\ idx' = idx + 1
                                    /\ IF unsized
                                       THEN /\ rta_lens' = Append(rta_lens,
                                                <<Len(pushed), slots[arg_types + 2],
                                                  LastFieldIndex(arg_t.pointee)>>)
                                            /\ arguments' = Append(pushed, PLACEHOLDER)
                                            /\ arg_types' = arg_types + 2
                                       ELSE /\ rta_lens' = rta_lens
                                            /\ arguments' = pushed
                                            /\ arg_types' = arg_types + 1
    /\ UNCHANGED <<compiled, overflow_checks, entry, new_spirv, fn_id, rs_ty, rs_out>>

\* A length query made on the reserved slot instead of the variable before it.
RECURSIVE ArrayLengthsOnSlot(_, _, _)
ArrayLengthsOnSlot(lens, k, st) ==
    IF k > Len(lens) THEN st
    ELSE ArrayLengthsOnSlot(lens, k + 1,
            [module |-> Append(st.module,
                    OpArrayLength(st.next_id, lens[k][2], st.arguments[lens[k][1] + 1],
                                  lens[k][3])),
             next_id |-> st.next_id + 1,
             arguments |-> [st.arguments EXCEPT ![lens[k][1] + 1] = st.next_id]])

\* The fixup queue worked off from its last entry to its first.
RECURSIVE ArrayLengthsLastFirst(_, _, _)
ArrayLengthsLastFirst(lens, k, st) ==
    IF k > Len(lens) THEN st
    ELSE LET e == lens[Len(lens) + 1 - k]
         IN  ArrayLengthsLastFirst(lens, k + 1,
                [module |-> Append(st.module,
                        OpArrayLength(st.next_id, e[2], st.arguments[e[1]], e[3])),
                 next_id |-> st.next_id + 1,
                 arguments |-> [st.arguments EXCEPT ![e[1] + 1] = st.next_id]])

\* rta_lens.iter().for_each: one OpArrayLength per queued fixup, its result
\* written to arguments[len_idx].  st is [module, next_id, arguments].
RECURSIVE ArrayLengths(_, _, _)
ArrayLengths(lens, k, st) ==
    IF k > Len(lens) THEN st
    ELSE LET len_idx == lens[k][1]
             len_t == lens[k][2]
             member_idx == lens[k][3]
         IN  ArrayLengths(lens, k + 1,
                [module |-> Append(st.module,
                        OpArrayLength(st.next_id, len_t, st.arguments[len_idx], member_idx)),
                 next_id |-> st.next_id + 1,
                 arguments |-> [st.arguments EXCEPT ![len_idx + 1] = st.next_id]])

\* Lines 178-198: the stub function and the entry point's registration.
ShaderEmit ==
    /\ pc = "shader_loop"
    /\ idx > Zipped(entry)
    /\ LET fn == next_id
           begun == Append(Append(module,
                        OpFunction(fn, Void, Function(Void, <<>>))), OpLabel(fn + 1))
           lens == ArrayLengths(rta_lens, 1,
                        [module |-> begun, next_id |-> fn + 2, arguments |-> arguments])
           call == OpFunctionCall(lens.next_id, entry.entry_func.return_type, lens.arguments)
       IN  /\ module' = lens.module \o
                    <<call, OpReturn, OpFunctionEnd,
                      OpEntryPoint(entry.execution_model, fn, entry.name, interface)>>
           /\ next_id' = lens.next_id + 1
           /\ arguments' = lens.arguments
           /\ fn_id' = fn
    /\ pc' = "modes"
    /\ UNCHANGED <<compiled, overflow_checks, entry, diags, new_spirv, idx, arg_types,
                   decoration_locations, interface, rta_lens, declared, rs_ty, rs_out>>

\* Function parameters declared in the reverse order of the argument types.
FunctionParametersReversed(first, tys) ==
    [k \in 1..Len(tys) |-> OpFunctionParameter(first + k - 1, tys[Len(tys) + 1 - k])]

\* emit.function_parameter(ty) for each argument type, ids in order.
FunctionParameters(first, tys) ==
    [k \in 1..Len(tys) |-> OpFunctionParameter(first + k - 1, tys[k])]

\* kernel_entry_stub.
KernelEntryStub ==
    /\ pc = "kernel"
    /\ IF entry.entry_func.t # "Function"
       THEN /\ diags' = Append(diags, Diag("Invalid kernel_entry_stub type", <<"none">>))
            /\ pc' = "aborted"
            /\ UNCHANGED <<module, next_id, fn_id>>
       ELSE LET entry_func_return == entry.entry_func.return_type
                entry_func_args == entry.entry_func.arguments
                fn == next_id
                params == FunctionParameters(fn + 1, entry_func_args)
                args == [k \in 1..Len(entry_func_args) |-> params[k].id]
                label == fn + 1 + Len(entry_func_args)
                call_result == label + 1
            IN  /\ module' = module \o <<OpFunction(fn, entry_func_return, entry.entry_func)>>
                        \o params
                        \o <<OpLabel(label),
                             OpFunctionCall(call_result, entry_func_return, args),
                             IF entry_func_return = Void THEN OpReturn
                             ELSE OpReturnValue(call_result),
                             OpFunctionEnd,
                             OpEntryPoint(entry.execution_model, fn, entry.name, <<>>)>>
                /\ next_id' = call_result + 1
                /\ fn_id' = fn
                /\ pc' = "modes"
                /\ UNCHANGED diags
    /\ UNCHANGED <<compiled, overflow_checks, entry, new_spirv, idx, arg_types,
                   decoration_locations, arguments, interface, rta_lens, declared,
                   rs_ty, rs_out>>

\* Execution modes attached from the last one of the descriptor to the first.
ExecutionModesReversed ==
    /\ pc = "modes"
    /\ module' = module \o
            [k \in 1..Len(entry.execution_modes) |->
                OpExecutionMode(fn_id,
                    entry.execution_modes[Len(entry.execution_modes) + 1 - k][1],
                    entry.execution_modes[Len(entry.execution_modes) + 1 - k][2])]
    /\ pc' = "done"
    /\ UNCHANGED <<compiled, overflow_checks, entry, next_id, diags, new_spirv, idx,
                   arg_types, decoration_locations, arguments, interface, rta_lens,
                   fn_id, declared, rs_ty, rs_out>>

\* Lines 94-100: one OpExecutionMode per execution mode of the entry.
ExecutionModes ==
    /\ pc = "modes"
    /\ module' = module \o
            [k \in 1..Len(entry.execution_modes) |->
                OpExecutionMode(fn_id, entry.execution_modes[k][1], entry.execution_modes[k][2])]
    /\ pc' = "done"
    /\ UNCHANGED <<compiled, overflow_checks, entry, next_id, diags, new_spirv, idx, arg_types,
                   decoration_locations, arguments, interface, rta_lens, fn_id,
                   declared, rs_ty, rs_out>>

\* The resolver on its own: get_storage_class applied to one type.
Resolve ==
    /\ pc = "resolver"
    /\ rs_out = Unset
    /\ rs_out' = get_storage_class(rs_ty)
    /\ UNCHANGED <<compiled, pc, overflow_checks, entry, module, next_id, diags, new_spirv, idx,
                   arg_types, decoration_locations, arguments, interface, rta_lens,
                   fn_id, declared, rs_ty>>

\* The compilation goes on to its next entry point once entry_stub has
\* returned.  A fatal error (fatal, span_fatal) never returns to entry_stub
\* or to its caller: it ends the compilation.
NextEntry ==
    /\ pc = "done"
    /\ Len(compiled) + 1 < MaxEntryPoints
    /\ compiled' = Append(compiled,
            [entry |-> entry, outcome |-> pc,
             module_len |-> Len(module), diags_len |-> Len(diags)])
    /\ pc' = "idle"
    /\ entry' = NoEntry
    /\ UNCHANGED <<overflow_checks, module, next_id, diags, new_spirv, idx, arg_types,
                   decoration_locations, arguments, interface, rta_lens, fn_id,
                   declared, rs_ty, rs_out>>

(***************************************************************************)
(* Inputs: the entry points handed to entry_stub.                          *)
(***************************************************************************)
SeqsUpTo(S, n) == UNION {[1..k -> S] : k \in 0..n}

Float == [t |-> "Float"]
PtrSlot == Pointer(Float)

Entry(local, model, modes, fn_abi, params, entry_func, version) ==
    [local |-> local, name |-> "main", execution_model |-> model,
     execution_modes |-> modes, fn_abi |-> fn_abi, params |-> params,
     entry_func |-> entry_func, version |-> version]

FnAbi(args, ret) == [args |-> args, ret |-> ret]

HirParam(ty, attrs, ident) == [ty |-> ty, attrs |-> attrs, ident |-> ident]

\* A parameter `arg: &f32`.
RefParam == HirParam(TyRef("Not", TyOther), <<>>, "arg")

\* n direct-passed parameters, the real function taking one pointer each.
DirectAbi(n) == FnAbi([k \in 1..n |-> Direct], Ignore)
PtrFunction(n) == Function(Void, [k \in 1..n |-> PtrSlot])

\* The PassModes the guard is tried on.
GuardModes ==
    { Direct, Indirect, Ignore,
      Pair(ArgAttributes(0, {}), ArgAttributes(4, {})),
      Pair(ArgAttributes(4, {"NonNull"}), ArgAttributes(0, {"NonNull"})),
      Pair(ArgAttributes(0, {}), ArgAttributes(4, {"NonNull"})),
      Pair(ArgAttributes(4, {}), ArgAttributes(4, {})) }

RetModes == {Ignore, Direct, Indirect}

\* Entry points that vary in their ABIs, for both execution models.
GuardEntries ==
    { Entry(local, model, <<>>, FnAbi(args, ret),
            [k \in 1..Len(args) |-> RefParam], PtrFunction(Len(args)), <<1, 3>>) :
        local \in BOOLEAN, model \in {"Kernel", "Vertex"},
        args \in SeqsUpTo(GuardModes, MaxGuardParams), ret \in RetModes }

Uniform == TyAdt(<<AttrStorageClass("Uniform")>>, <<>>, <<TyOther>>)

\* Parameters of the storage classes the interface list tells apart.
InterfaceParams ==
    { RefParam,
      HirParam(TyRef("Mut", TyOther), <<AttrFlat>>, "none"),
      HirParam(TyAdt(<<AttrStorageClass("PushConstant")>>, <<>>, <<TyOther>>), <<>>, "pc"),
      HirParam(TyAdt(<<AttrBind>>, <<Usize(0, 1), Usize(0, 2)>>, <<Uniform>>), <<>>, "buf") }

Versions == {<<1, 0>>, <<1, 3>>, <<1, 4>>}

InterfaceEntries ==
    { Entry(TRUE, "Fragment", <<>>, DirectAbi(Len(params)), params,
            PtrFunction(Len(params)), version) :
        params \in SeqsUpTo(InterfaceParams, MaxParams), version \in Versions }

\* The SpirvTypes of the real function's argument slots.
SlotTypes == {PtrSlot, Integer, Pointer(Adt(TRUE, 2)), Pointer(Adt(FALSE, 2))}

\* Entry points whose real function has any list of argument type slots.
SlotEntries ==
    { Entry(TRUE, "GLCompute", <<>>, DirectAbi(n), [k \in 1..n |-> RefParam],
            Function(Void, slots), <<1, 3>>) :
        n \in 0..MaxSlotParams, slots \in SeqsUpTo(SlotTypes, MaxSlots) }

ExecutionModeLists ==
    SeqsUpTo({<<"OriginUpperLeft", <<>>>>, <<"LocalSize", <<8, 8, 1>>>>}, MaxModes)

\* Kernel entry points, and entry points whose entry_func is no function.
KernelEntries ==
    { Entry(TRUE, model, modes, DirectAbi(n), [k \in 1..n |-> RefParam], fty, <<1, 3>>) :
        model \in {"Kernel", "Vertex"}, modes \in ExecutionModeLists, n \in 0..1,
        fty \in {Integer} \cup
                { Function(ret, args) : ret \in {Void, Integer},
                    args \in SeqsUpTo({PtrSlot, Integer}, MaxKernelArgs) } }

Entries == GuardEntries \cup InterfaceEntries \cup SlotEntries \cup KernelEntries

\* The explicit locations tried: 0..MaxLoc and u32::MAX.
LocationConsts == {Usize(0, n) : n \in 0..MaxLoc} \cup {USIZE_U32_MAX}

InputAt(c) == TyAdt(<<AttrStorageClass("Input")>>, <<c>>, <<TyOther>>)
OutputAt(c) == TyAdt(<<AttrStorageClass("Output")>>, <<c>>, <<TyOther>>)

\* Parameters that take part in the location bookkeeping, and some that do not.
LocationParams ==
    { RefParam,
      HirParam(TyRef("Mut", TyOther), <<>>, "out"),
      HirParam(TyRef("Not", TyOther), <<AttrBuiltin("Position")>>, "pos"),
      HirParam(InputAt(Usize(0, 0)), <<AttrBuiltin("VertexIndex")>>, "vi"),
      HirParam(TyAdt(<<AttrStorageClass("PushConstant")>>, <<>>, <<TyOther>>), <<>>, "pc"),
      HirParam(TyOther, <<>>, "x") }
    \cup { HirParam(InputAt(c), <<>>, "in") : c \in LocationConsts }
    \cup { HirParam(OutputAt(Usize(0, 0)), <<>>, "o") }

LocationEntries ==
    { Entry(TRUE, "Vertex", <<>>, DirectAbi(Len(params)), params,
            PtrFunction(Len(params)), <<1, 3>>) :
        params \in SeqsUpTo(LocationParams, MaxParams) }

\* The types the resolver is tried on.
ResolverAttrs ==
    { AttrStorageClass("Input"), AttrStorageClass("Output"),
      AttrStorageClass("PushConstant"), AttrStorageClass("Uniform"),
      AttrBind, AttrBlock }

ConstVals == {Usize(0, 1), Usize(1, 0)}

PayloadAdts ==
    { TyAdt(<<>>, <<>>, <<>>),
      TyAdt(<<AttrStorageClass("Uniform")>>, <<>>, <<>>),
      TyAdt(<<AttrBlock, AttrStorageClass("StorageBuffer")>>, <<>>, <<>>) }

Payloads ==
    {<<>>, <<TyOther>>, <<TySlice(TyOther)>>}
    \cup { <<p>> : p \in PayloadAdts }
    \cup { <<TySlice(p)>> : p \in {TyAdt(<<>>, <<>>, <<>>),
                                   TyAdt(<<AttrStorageClass("Uniform")>>, <<>>, <<>>)} }
    \cup { <<TyArray(p)>> : p \in {TyAdt(<<>>, <<>>, <<>>),
                                   TyAdt(<<AttrStorageClass("Uniform")>>, <<>>, <<>>)} }

ResolverAdts ==
    { TyAdt(attrs, consts, types) :
        attrs \in SeqsUpTo(ResolverAttrs, MaxAttrs),
        consts \in SeqsUpTo(ConstVals, MaxConsts),
        types \in Payloads }

\* References to anything, a directive-carrying ADT included.
ResolverRefs ==
    { TyRef(m, pointee) : m \in {"Not", "Mut"},
        pointee \in {TyOther, TySlice(TyOther)} \cup
            { TyAdt(attrs, <<Usize(0, 1)>>, <<Uniform>>) :
                attrs \in SeqsUpTo(ResolverAttrs, MaxAttrs) } }

ResolverTys ==
    ResolverAdts \cup ResolverRefs \cup {TyOther, TySlice(TyOther), TyArray(Uniform)}

(***************************************************************************)
(* Specifications.                                                         *)
(***************************************************************************)
InitCommon ==
    /\ overflow_checks \in BOOLEAN
    /\ entry = NoEntry
    /\ module = <<>>
    /\ next_id = 1
    /\ diags = <<>>
    /\ new_spirv = FALSE
    /\ idx = 0
    /\ arg_types = 0
    /\ decoration_locations = NoLocations
    /\ arguments = <<>>
    /\ interface = <<>>
    /\ rta_lens = <<>>
    /\ fn_id = 0
    /\ declared = <<>>
    /\ rs_out = Unset
    /\ compiled = <<>>

Init ==
    /\ pc = "idle"
    /\ rs_ty = TyOther
    /\ InitCommon

\* Lowering of one entry point of any of the entry families.
Next ==
    \/ EntryStub(Entries)
    \/ ShaderBegin
    \/ ShaderParam
    \/ ShaderEmit
    \/ KernelEntryStub
    \/ ExecutionModes

Spec == Init /\ [][Next]_vars

\* Lowering of one shader entry point whose parameters vary in their locations.
NextLocations ==
    \/ EntryStub(LocationEntries)
    \/ ShaderBegin
    \/ ShaderParam
    \/ ShaderEmit
    \/ ExecutionModes

SpecLocations == Init /\ [][NextLocations]_vars

\* Parameters of every kind of binding, with any short list of attributes.
AttributeParams ==
    { HirParam(ty, attrs, "p") :
        ty \in { TyRef("Not", TyOther), TyRef("Mut", TyOther),
                 InputAt(Usize(0, 0)), InputAt(Usize(0, 1)),
                 TyAdt(<<AttrBind>>, <<Usize(0, 1), Usize(0, 2)>>, <<Uniform>>),
                 TyAdt(<<AttrStorageClass("PushConstant")>>, <<>>, <<TyOther>>) },
        attrs \in SeqsUpTo({AttrBuiltin("Position"), AttrFlat}, MaxAttrs) }

AttributeEntries ==
    { Entry(TRUE, "Vertex", <<>>, DirectAbi(Len(params)), params,
            PtrFunction(Len(params)), <<1, 3>>) :
        params \in SeqsUpTo(AttributeParams, 2) }

\* Lowering of one shader entry point whose parameters vary in their attributes.
NextAttributes ==
    \/ EntryStub(AttributeEntries)
    \/ ShaderBegin
    \/ ShaderParam
    \/ ShaderEmit
    \/ ExecutionModes

SpecAttributes == Init /\ [][NextAttributes]_vars

RuntimeArray == [t |-> "RuntimeArray"]

\* A parameter's ABI with the argument type slots the real function has for
\* it: one for a direct parameter, a pointer and a length for a scalar pair
\* ("two args for scalar pairs, but only one param & abi").
PairKinds ==
    { [abi |-> Direct, slots |-> <<PtrSlot>>],
      [abi |-> Pair(ArgAttributes(0, {}), ArgAttributes(4, {})),
       slots |-> <<Pointer(RuntimeArray), Integer>>],
      [abi |-> Pair(ArgAttributes(4, {"NonNull"}), ArgAttributes(0, {})),
       slots |-> <<Pointer(Adt(FALSE, 2)), Integer>>] }

RECURSIVE SlotsOf(_, _)
SlotsOf(kinds, k) ==
    IF k > Len(kinds) THEN <<>> ELSE kinds[k].slots \o SlotsOf(kinds, k + 1)

PairEntries ==
    { Entry(TRUE, "GLCompute", <<>>, FnAbi([k \in 1..Len(kinds) |-> kinds[k].abi], Ignore),
            [k \in 1..Len(kinds) |-> RefParam], Function(Void, SlotsOf(kinds, 1)), <<1, 3>>) :
        kinds \in SeqsUpTo(PairKinds, MaxParams) }

\* Lowering of one shader entry point with direct and scalar-pair parameters.
NextPairs ==
    \/ EntryStub(PairEntries)
    \/ ShaderBegin
    \/ ShaderParam
    \/ ShaderEmit
    \/ ExecutionModes

SpecPairs == Init /\ [][NextPairs]_vars

\* Entry points of one compilation: the slots may run out, the guard may reject.
CompilationEntries ==
    { Entry(TRUE, "Fragment", <<>>, FnAbi([k \in 1..n |-> Direct], ret),
            [k \in 1..n |-> RefParam], Function(Void, slots), <<1, 3>>) :
        n \in 1..2, ret \in {Ignore, Direct},
        slots \in SeqsUpTo({PtrSlot, Pointer(Adt(FALSE, 2))}, 2) }

\* One compilation lowering several entry points, one after the other.
NextCompilation ==
    \/ EntryStub(CompilationEntries)
    \/ ShaderBegin
    \/ ShaderParam
    \/ ShaderEmit
    \/ ExecutionModes
    \/ NextEntry

SpecCompilation == Init /\ [][NextCompilation]_vars

\* Parameters with inferred and with explicit locations.
SequenceParams ==
    { RefParam,
      HirParam(TyRef("Mut", TyOther), <<>>, "out"),
      HirParam(InputAt(Usize(0, 0)), <<>>, "in"),
      HirParam(InputAt(Usize(0, 1)), <<>>, "in") }

SequenceEntries ==
    { Entry(TRUE, "Vertex", <<>>, DirectAbi(Len(params)), params,
            PtrFunction(Len(params)), <<1, 3>>) :
        params \in SeqsUpTo(SequenceParams, 2) }

\* Several shader entry points lowered one after the other into one module.
NextSequence ==
    \/ EntryStub(SequenceEntries)
    \/ ShaderBegin
    \/ ShaderParam
    \/ ShaderEmit
    \/ ExecutionModes
    \/ NextEntry

SpecSequence == Init /\ [][NextSequence]_vars

\* get_storage_class on one type.
InitResolver ==
    /\ pc = "resolver"
    /\ rs_ty \in ResolverTys
    /\ InitCommon

NextResolver == Resolve

SpecResolver == InitResolver /\ [][NextResolver]_vars

(***************************************************************************)
(* Properties.  What the claims speak of, read off the emitted module, the *)
(* diagnostics and the record of the parameters processed.                 *)
(***************************************************************************)
DecorationsOf(v, dec) ==
    SelectSeq(module, LAMBDA ins : ins.op = "OpDecorate" /\ ins.id = v /\ ins.dec = dec)

Emitted(op) == SelectSeq(module, LAMBDA ins : ins.op = op)

HasLocation(j) ==
    declared[j].outcome # "fatal" /\ Len(DecorationsOf(declared[j].variable, "Location")) > 0

\* The Location value the variable of parameter j was given.
LocationOf(j) == DecorationsOf(declared[j].variable, "Location")[1].operand[1]

OrderDiagAt(j) ==
    \E k \in 1..Len(diags) :
        diags[k] = Diag("Locations must appear in ascending order", ParamSpan(j))

\* Parameter j took the class cursor forward: an inferred location, or an
\* explicit one that was accepted.
Advanced(j) ==
    /\ declared[j].outcome = "ok"
    /\ \/ declared[j].spirv_binding = InferredLocation
       \/ declared[j].spirv_binding.b = "Location" /\ ~OrderDiagAt(j)

EarlierInClass(j) ==
    {i \in 1..(j - 1) : declared[i].storage_class = declared[j].storage_class}

Max(S) == CHOOSE x \in S : \A y \in S : x >= y

\* The cursor parameter j meets: 0, or the u32 successor of the location of
\* the last earlier parameter of its class that took the cursor forward.
CursorMet(j) ==
    LET adv == {i \in EarlierInClass(j) : Advanced(i)}
    IN  IF adv = {} THEN U32(0) ELSE U32WrappingInc(LocationOf(Max(adv)))

ResolvedTo(j, b) ==
    declared[j].resolved.opt = "Some" /\ declared[j].resolved.binding.b = b

(* C1 as stated: in every storage class, the parameters resolved to        *)
(* InferredLocation carry the Location values 0, 1, 2, ... in declaration  *)
(* order, whatever other parameters stand among them.                      *)
C1_InferredFromZeroAlways ==
    \A j \in 1..Len(declared) :
        declared[j].spirv_binding = InferredLocation =>
            /\ HasLocation(j)
            /\ LocationOf(j) =
                 U32(Cardinality({i \in EarlierInClass(j) :
                                    declared[i].spirv_binding = InferredLocation}))

(* C1 amended: a parameter whose binding is still InferredLocation when it *)
(* is applied (no built-in directive) gets exactly one Location, the value *)
(* of its class cursor; with no explicit Location of its class before it,  *)
(* these values are 0, 1, 2, ... in declaration order.                     *)
C1_InferredDense ==
    \A j \in 1..Len(declared) :
        declared[j].spirv_binding = InferredLocation =>
            /\ Len(DecorationsOf(declared[j].variable, "Location")) = 1
            /\ LocationOf(j) = CursorMet(j)
            /\ (\A i \in EarlierInClass(j) : declared[i].spirv_binding.b # "Location") =>
                 LocationOf(j) =
                    U32(Cardinality({i \in EarlierInClass(j) :
                                        declared[i].spirv_binding = InferredLocation}))

\* Two inferred inputs around an explicit output get 0 and 1.
C1_Witness ==
    /\ pc = "done"
    /\ Len(declared) = 3
    /\ declared[1].spirv_binding = InferredLocation
    /\ declared[2].spirv_binding.b = "Location"
    /\ declared[3].spirv_binding = InferredLocation
    /\ declared[3].storage_class = declared[1].storage_class
    /\ LocationOf(1) = U32(0)
    /\ LocationOf(3) = U32(1)

(* C2 as stated: an explicit Location(n) draws no ascending-order          *)
(* diagnostic iff n >= every location assigned before in its class.        *)
C2_AcceptedIffGeqPrevious ==
    \A j \in 1..Len(declared) :
        (ResolvedTo(j, "Location") /\ declared[j].outcome = "ok") =>
            (~OrderDiagAt(j) <=>
                \A i \in EarlierInClass(j) :
                    HasLocation(i) =>
                        U32Geq(declared[j].resolved.binding.location, LocationOf(i)))

(* C2 amended: an explicit Location(n) that is applied (no built-in        *)
(* directive) draws no diagnostic iff n >= the class cursor, which is 0 or *)
(* one past the last accepted or inferred location; so, while no location  *)
(* 2^32 - 1 was assigned before, iff n is strictly greater than every      *)
(* location assigned before in its class.  With a built-in directive the   *)
(* parameter never draws the diagnostic.                                   *)
C2_AcceptedIffGeqCursor ==
    \A j \in 1..Len(declared) :
        /\ (declared[j].spirv_binding.b = "Location") =>
            LET n == declared[j].spirv_binding.location
                before == {i \in EarlierInClass(j) : HasLocation(i)}
            IN  /\ ~OrderDiagAt(j) <=> U32Geq(n, CursorMet(j))
                /\ (\A i \in before : LocationOf(i) # U32_MAX) =>
                      (~OrderDiagAt(j) <=> \A i \in before : U32Lt(LocationOf(i), n))
        /\ (ResolvedTo(j, "Location") /\ declared[j].spirv_binding = Builtin) =>
            ~OrderDiagAt(j)

\* A repeated Location(1) in one class: the second one is rejected.
C2_Witness ==
    /\ Len(declared) >= 2
    /\ declared[1].spirv_binding = Location(U32(1))
    /\ declared[2].spirv_binding = Location(U32(1))
    /\ declared[2].storage_class = declared[1].storage_class
    /\ ~OrderDiagAt(1)
    /\ OrderDiagAt(2)

(* C3: an ascending-order violation is not fatal: the cursor keeps its     *)
(* value, the parameters after it are processed, every earlier variable    *)
(* keeps its one Location, and no parameter ever takes a cursor backward.  *)
C3_ViolationKeepsCursor ==
    \A j \in 1..Len(declared) :
        /\ OrderDiagAt(j) =>
            /\ declared[j].outcome = "ok"
            /\ CursorOf(declared[j].after, declared[j].storage_class)
                 = CursorOf(declared[j].before, declared[j].storage_class)
            /\ \A i \in 1..(j - 1) :
                 declared[i].spirv_binding.b \in {"Location", "InferredLocation"} =>
                    Len(DecorationsOf(declared[i].variable, "Location")) = 1
            /\ (pc \in {"aborted", "modes", "done"} /\ j < Zipped(entry)) =>
                 Len(declared) > j
        /\ \A sc \in DOMAIN declared[j].before :
             U32Geq(CursorOf(declared[j].after, sc), declared[j].before[sc])

(* C4: a reference resolves by its mutability alone: `&` to Input and      *)
(* `&mut` to Output, both with InferredLocation, whatever directives the   *)
(* type behind the reference carries.                                      *)
C4_RefsResolveByMutability ==
    (rs_out # Unset /\ rs_ty.kind = "Ref") =>
        rs_out = Some(IF rs_ty.mutbl = "Not" THEN "Input" ELSE "Output", InferredLocation)

\* A `&mut` to a type that carries bind and push_constant resolved to Output.
C4_Witness ==
    /\ rs_out = Some("Output", InferredLocation)
    /\ rs_ty.kind = "Ref"
    /\ rs_ty.mutbl = "Mut"
    /\ rs_ty.pointee.kind = "Adt"
    /\ rs_ty.pointee.attrs = <<AttrBind, AttrStorageClass("PushConstant")>>

\* The type carries a bind directive and its payload has no storage class.
BindWithoutPayloadClass(ty) ==
    /\ ty.kind = "Adt"
    /\ \E i \in 1..Len(ty.attrs) : ty.attrs[i] = AttrBind
    /\ ty.types # <<>>
    /\ LET p == ty.types[1]
           adts == IF p.kind = "Adt" THEN {p}
                   ELSE IF p.kind \in {"Slice", "Array"} /\ p.elem.kind = "Adt" THEN {p.elem}
                   ELSE {}
       IN  \A a \in adts : \A i \in 1..Len(a.attrs) : a.attrs[i].a # "StorageClass"

(* C5 as stated: a bind type whose payload has no storage-class directive  *)
(* is unresolvable, whatever else the outer type carries.                  *)
C5_BindWithoutClassNeverResolves ==
    (rs_out # Unset /\ BindWithoutPayloadClass(rs_ty)) => rs_out = None

(* C5 amended: a bind type whose payload has no storage-class directive is *)
(* unresolvable for every (set, binding), whatever else the outer type     *)
(* carries other than an Input, Output or PushConstant override.           *)
C5_BindWithoutClassUnresolvable ==
    ( /\ rs_out # Unset
      /\ BindWithoutPayloadClass(rs_ty)
      /\ \A i \in 1..Len(rs_ty.attrs) :
            rs_ty.attrs[i] \notin {AttrStorageClass("Input"), AttrStorageClass("Output"),
                                   AttrStorageClass("PushConstant")} )
    => rs_out = None

\* Bind<[Plain], 1, 2^32> with a directive of another class on the outer type.
C5_Witness ==
    /\ rs_out = None
    /\ BindWithoutPayloadClass(rs_ty)
    /\ rs_ty.attrs = <<AttrBind, AttrStorageClass("Uniform")>>
    /\ Len(rs_ty.consts) = 2
    /\ rs_ty.types = <<TySlice(TyAdt(<<>>, <<>>, <<>>))>>

Lowering == entry.name # "none" /\ entry.local

ShaderLowering == Lowering /\ entry.execution_model # "Kernel"

(* C6: a shader entry point's interface list holds, in declaration order,  *)
(* exactly the declared variables that are Input or Output, or all of them *)
(* when the version is above 1.3; at 1.3 or lower the list never holds a   *)
(* variable of another storage class.                                      *)
C6_InterfaceMembership ==
    ShaderLowering =>
        LET newer == entry.version[1] > 1 \/ (entry.version[1] = 1 /\ entry.version[2] > 3)
            In(ins) == newer \/ ins.storage_class \in {"Input", "Output"}
            eps == Emitted("OpEntryPoint")
            vs == SelectSeq(module, LAMBDA ins : ins.op = "OpVariable" /\ In(ins))
        IN  /\ \A k \in 1..Len(eps) : eps[k].interface = [i \in 1..Len(vs) |-> vs[i].id]
            /\ ~newer =>
                 \A k \in 1..Len(interface) :
                    \E i \in 1..Len(module) :
                        /\ module[i].op = "OpVariable"
                        /\ module[i].id = interface[k]
                        /\ module[i].storage_class \in {"Input", "Output"}

\* At version 1.3: three variables, the push constant left out of the list.
C6_Witness ==
    /\ pc = "done"
    /\ entry.version = <<1, 3>>
    /\ Len(Emitted("OpVariable")) = 3
    /\ Emitted("OpVariable")[1].storage_class = "Output"
    /\ Emitted("OpVariable")[2].storage_class = "PushConstant"
    /\ Emitted("OpVariable")[3].storage_class = "Input"
    /\ Emitted("OpEntryPoint")[1].interface = <<1, 3>>

(* C7: in an emitted shader stub every variable that points to an          *)
(* aggregate with an unsized tail has exactly one OpArrayLength on it, at  *)
(* the aggregate's last field index, whose result is the call argument     *)
(* right after the variable; the call has no placeholder left, and a       *)
(* length is neither named nor in the interface list.                      *)
C7_LengthQueries ==
    (ShaderLowering /\ pc \in {"modes", "done"}) =>
        LET vs == Emitted("OpVariable")
            lens == Emitted("OpArrayLength")
            call == Emitted("OpFunctionCall")[1]
            ep == Emitted("OpEntryPoint")[1]
            Unsized(t) == t.t = "Pointer" /\ t.pointee.t = "Adt" /\ ~t.pointee.sized
        IN  /\ \A v \in 1..Len(vs) :
                Unsized(vs[v].ty) =>
                    /\ Cardinality({l \in 1..Len(lens) : lens[l].ptr = vs[v].id}) = 1
                    /\ \A l \in 1..Len(lens) :
                        lens[l].ptr = vs[v].id =>
                            /\ lens[l].member = vs[v].ty.pointee.nfields - 1
                            /\ \E a \in 1..(Len(call.args) - 1) :
                                call.args[a] = vs[v].id /\ call.args[a + 1] = lens[l].id
            /\ Len(lens) = Cardinality({v \in 1..Len(vs) : Unsized(vs[v].ty)})
            /\ \A a \in 1..Len(call.args) : call.args[a] # PLACEHOLDER
            /\ \A l \in 1..Len(lens) :
                /\ \A k \in 1..Len(ep.interface) : ep.interface[k] # lens[l].id
                /\ \A i \in 1..Len(module) :
                    module[i].op = "OpName" => module[i].id # lens[l].id

\* Two parameters with unsized tails: two length queries, four call arguments.
C7_Witness ==
    /\ pc = "done"
    /\ Len(Emitted("OpArrayLength")) = 2
    /\ Len(Emitted("OpFunctionCall")[1].args) = 4

GuardRejects(e) ==
    \/ \E i \in 1..Zipped(e) : ~ParamModeAccepted(e.fn_abi.args[i])
    \/ ~RetModeAccepted(e.fn_abi.ret)

GuardDiags ==
    SelectSeq(diags, LAMBDA d :
        d.msg \in {"PassMode invalid for entry point parameter",
                   "PassMode invalid for entry point return type"})

FatalMessages ==
    { "Invalid entry_stub type", "Invalid kernel_entry_stub type",
      "Invalid function arguments: missing type",
      "Invalid function arguments: fat pointer missing length",
      "invalid entry param type" }

C9_KernelStub ==
    (Lowering /\ entry.execution_model = "Kernel") =>
        /\ Emitted("OpVariable") = <<>>
        /\ Emitted("OpDecorate") = <<>>
        /\ Emitted("OpName") = <<>>
        /\ pc \in {"modes", "done"} =>
            LET ps == Emitted("OpFunctionParameter")
                calls == Emitted("OpFunctionCall")
                eps == Emitted("OpEntryPoint")
            IN  /\ Len(ps) = Len(entry.entry_func.arguments)
                /\ \A k \in 1..Len(ps) : ps[k].ty = entry.entry_func.arguments[k]
                /\ Len(calls) = 1
                /\ Len(calls[1].args) = Len(ps)
                /\ \A k \in 1..Len(ps) : calls[1].args[k] = ps[k].id
                /\ Len(eps) = 1
                /\ eps[1].model = "Kernel"
                /\ eps[1].fn = Emitted("OpFunction")[1].id
                /\ eps[1].interface = <<>>

\* A kernel whose real function takes a pointer and an integer.
C9_Witness ==
    /\ pc = "done"
    /\ Lowering
    /\ entry.execution_model = "Kernel"
    /\ entry.entry_func.t = "Function"
    /\ entry.entry_func.arguments = <<PtrSlot, Integer>>
    /\ Len(Emitted("OpFunctionParameter")) = 2

InvalidParamDiagAt(j) ==
    \E k \in 1..Len(diags) : diags[k] = Diag("invalid entry param type", ParamSpan(j))

CurrentModule ==
    SubSeq(module, (IF compiled = <<>> THEN 0 ELSE compiled[Len(compiled)].module_len) + 1,
           Len(module))

CurrentDiags ==
    SubSeq(diags, (IF compiled = <<>> THEN 0 ELSE compiled[Len(compiled)].diags_len) + 1,
           Len(diags))

\* The first parameter of e whose pointer slot (or length slot) is missing,
\* counting from parameter i with t slots taken; param 0 if there is none.
RECURSIVE FirstUnmatched(_, _, _)
FirstUnmatched(e, i, t) ==
    LET slots == e.entry_func.arguments
    IN  IF i > Zipped(e) THEN [param |-> 0, length |-> FALSE]
        ELSE IF t + 1 > Len(slots) THEN [param |-> i, length |-> FALSE]
        ELSE IF slots[t + 1].t = "Pointer" /\ slots[t + 1].pointee.t = "Adt"
                /\ ~slots[t + 1].pointee.sized
             THEN IF t + 2 > Len(slots) THEN [param |-> i, length |-> TRUE]
                  ELSE FirstUnmatched(e, i + 1, t + 2)
             ELSE FirstUnmatched(e, i + 1, t + 1)

(* C11: a parameter without its pointer or length type slot is reported at *)
(* that parameter and ends the lowering of its entry point with nothing    *)
(* more emitted for it, and only that: while the compilation has entry     *)
(* points left, it goes on to the next one.                                *)
C11_MissingSlotScoped ==
    (pc = "aborted" /\ Lowering) =>
        LET f == FirstUnmatched(entry, 1, 0)
        IN  /\ f.param # 0
            /\ diags # <<>>
            /\ diags[Len(diags)] =
                 Diag(IF f.length
                      THEN "Invalid function arguments: fat pointer missing length"
                      ELSE "Invalid function arguments: missing type",
                      ParamSpan(f.param))
            /\ SelectSeq(CurrentModule, LAMBDA ins : ins.op \in {"OpFunction", "OpEntryPoint"})
                 = <<>>
            /\ Len(compiled) + 1 < MaxEntryPoints => ENABLED NextEntry

(* C13: the guard reports a parameter, once and at that parameter, iff its *)
(* ABI is none of Direct, a pair whose first part has a zero-size pointee  *)
(* and whose second part has no attribute, a pair whose second part has a  *)
(* zero-size pointee; it reports the return value, once, iff the return    *)
(* ABI is not Ignore; this for every parameter, in either execution model. *)
C13_GuardReportsIff ==
    (pc # "idle" /\ Lowering) =>
        LET Supported(m) ==
                \/ m.mode = "Direct"
                \/ m.mode = "Pair" /\ m.a.pointee_size = 0 /\ m.b.regular = {}
                \/ m.mode = "Pair" /\ m.b.pointee_size = 0
            Reports(d) == Cardinality({k \in 1..Len(diags) : diags[k] = d})
        IN  /\ Len(entry.fn_abi.args) = Len(entry.params)
            /\ \A i \in 1..Len(entry.params) :
                Reports(Diag("PassMode invalid for entry point parameter", ParamSpan(i)))
                    = IF Supported(entry.fn_abi.args[i]) THEN 0 ELSE 1
            /\ Reports(Diag("PassMode invalid for entry point return type", FnSpan))
                    = IF entry.fn_abi.ret.mode = "Ignore" THEN 0 ELSE 1
            /\ \A k \in 1..Len(GuardDiags) :
                \/ GuardDiags[k].span = FnSpan
                \/ \E i \in 1..Len(entry.params) : GuardDiags[k].span = ParamSpan(i)

\* A pair accepted only for its zero-size second part, then a pair whose
\* second part has an attribute and a sized pointee: one report, at the latter.
C13_Witness ==
    /\ pc = "done"
    /\ Lowering
    /\ Len(entry.params) = 2
    /\ entry.fn_abi.args[1] = Pair(ArgAttributes(4, {"NonNull"}), ArgAttributes(0, {"NonNull"}))
    /\ entry.fn_abi.args[2] = Pair(ArgAttributes(0, {}), ArgAttributes(4, {"NonNull"}))
    /\ entry.fn_abi.ret = Ignore
    /\ GuardDiags = <<Diag("PassMode invalid for entry point parameter", ParamSpan(2))>>

(* C14: each built-in directive of a parameter puts one BuiltIn decoration *)
(* on its variable and makes the binding Builtin whatever was resolved:    *)
(* the variable has no Location, DescriptorSet or Binding decoration, the  *)
(* parameter draws no ascending-order diagnostic and every cursor is as    *)
(* before it.  Each flat directive puts one Flat decoration and the        *)
(* binding stays as resolved.                                              *)
C14_BuiltinForcesBinding ==
    \A j \in 1..Len(declared) :
        declared[j].outcome = "ok" =>
            LET attrs == entry.params[j].attrs
                v == declared[j].variable
                builtins == SelectSeq(attrs, LAMBDA a : a.a = "Builtin")
                flats == SelectSeq(attrs, LAMBDA a : a.a = "Flat")
                decs == DecorationsOf(v, "BuiltIn")
            IN  /\ Len(decs) = Len(builtins)
                /\ \A k \in 1..Len(decs) : decs[k].operand = <<builtins[k].builtin>>
                /\ Len(DecorationsOf(v, "Flat")) = Len(flats)
                /\ builtins # <<>> =>
                    /\ declared[j].spirv_binding = Builtin
                    /\ DecorationsOf(v, "Location") = <<>>
                    /\ DecorationsOf(v, "DescriptorSet") = <<>>
                    /\ DecorationsOf(v, "Binding") = <<>>
                    /\ ~OrderDiagAt(j)
                    /\ declared[j].after = declared[j].before
                /\ builtins = <<>> =>
                    /\ declared[j].spirv_binding = declared[j].resolved.binding
                    /\ Len(DecorationsOf(v, "Location")) =
                         IF declared[j].resolved.binding.b \in {"Location", "InferredLocation"}
                         THEN 1 ELSE 0
                    /\ Len(DecorationsOf(v, "DescriptorSet")) =
                         IF declared[j].resolved.binding.b = "DescriptorSet" THEN 1 ELSE 0
                    /\ Len(DecorationsOf(v, "Binding")) =
                         IF declared[j].resolved.binding.b = "DescriptorSet" THEN 1 ELSE 0

\* Input<Location 1> with flat and built-in directives, then a plain
\* Input<Location 0>: the first left the Input cursor alone, the second passes.
C14_Witness ==
    /\ pc = "done"
    /\ Len(declared) = 2
    /\ entry.params[1].ty = InputAt(Usize(0, 1))
    /\ entry.params[1].attrs = <<AttrFlat, AttrBuiltin("Position")>>
    /\ declared[1].resolved = Some("Input", Location(U32(1)))
    /\ declared[1].spirv_binding = Builtin
    /\ entry.params[2].ty = InputAt(Usize(0, 0))
    /\ entry.params[2].attrs = <<>>
    /\ ~OrderDiagAt(2)
    /\ DecorationsOf(declared[2].variable, "Location") # <<>>

Perms(n) == {f \in [1..n -> 1..n] : \A a, b \in 1..n : f[a] = f[b] => a = b}

\* The same type with its directives attached in the order f.
Reattached(ty, f) == [ty EXCEPT !.attrs = [k \in 1..Len(ty.attrs) |-> ty.attrs[f[k]]]]

\* A directive that ends the resolver's walk over the directives of ty.
Deciding(ty, attr) ==
    \/ attr \in {AttrStorageClass("Input"), AttrStorageClass("Output"),
                 AttrStorageClass("PushConstant")}
    \/ /\ attr = AttrBind
       /\ \/ Len(ty.consts) # 2
          \/ ty.types = <<>>
          \/ PayloadStorageClass(ty.types[1]) # "none"

DecidingOf(ty) == SelectSeq(ty.attrs, LAMBDA a : Deciding(ty, a))

C16_SingleOverride ==
    (rs_out # Unset /\ rs_ty.kind = "Adt" /\ Len(rs_ty.attrs) = 1) =>
        LET attr == rs_ty.attrs[1]
            consts == rs_ty.consts
        IN  /\ attr \in {AttrStorageClass("Input"), AttrStorageClass("Output")} =>
                IF Len(consts) = 1
                THEN /\ rs_out.opt = "Some"
                     /\ rs_out.storage_class = attr.sc
                     /\ rs_out.binding.b = "Location"
                     /\ consts[1].top = 0
                     /\ rs_out.binding.location = [hi |-> consts[1].hi, lo |-> consts[1].lo]
                ELSE rs_out = None
            /\ attr = AttrStorageClass("PushConstant") =>
                rs_out = Some("PushConstant", PushConstant)
            /\ (attr.a = "StorageClass" /\ attr.sc \notin {"Input", "Output", "PushConstant"}) =>
                rs_out = None
            /\ (attr = AttrBind /\ Len(consts) # 2) => rs_out = None

\* The slots the first n parameters of e take if a pair takes two, others one.
RECURSIVE AbiSlots(_, _)
AbiSlots(e, n) ==
    IF n = 0 THEN 0
    ELSE AbiSlots(e, n - 1) + (IF e.fn_abi.args[n].mode = "Pair" THEN 2 ELSE 1)

(* C17: in the shader path a parameter takes two argument type slots when  *)
(* its ABI is one of the two pair patterns and one when it is Direct, so   *)
(* after any prefix of parameters the next slot read is the pointer slot   *)
(* of the next parameter: its variable has that slot's type.               *)
C17_SlotsFollowAbi ==
    ShaderLowering =>
        /\ pc = "shader_loop" => arg_types = AbiSlots(entry, idx - 1)
        /\ \A j \in 1..Len(declared) :
            declared[j].outcome = "ok" =>
                \E i \in 1..Len(module) :
                    /\ module[i].op = "OpVariable"
                    /\ module[i].id = declared[j].variable
                    /\ AbiSlots(entry, j - 1) + 1 <= Len(entry.entry_func.arguments)
                    /\ module[i].ty = entry.entry_func.arguments[AbiSlots(entry, j - 1) + 1]

(* C18: in the kernel and in the shader path, once entry_stub has returned *)
(* every execution mode of the descriptor has been attached exactly once,  *)
(* with its operands and in descriptor order, to the function registered   *)
(* as the entry point; none is attached before the registration.           *)
C18_ExecutionModesAttached ==
    Lowering =>
        LET ems == Emitted("OpExecutionMode")
            eps == Emitted("OpEntryPoint")
            fns == Emitted("OpFunction")
        IN  /\ pc # "done" => ems = <<>>
            /\ pc = "done" =>
                /\ Len(eps) = 1
                /\ Len(fns) = 1
                /\ eps[1].fn = fns[1].id
                /\ Len(ems) = Len(entry.execution_modes)
                /\ \A k \in 1..Len(ems) :
                    /\ ems[k].fn = eps[1].fn
                    /\ ems[k].mode = entry.execution_modes[k][1]
                    /\ ems[k].extra = entry.execution_modes[k][2]
            /\ \A i, j \in 1..Len(module) :
                (module[i].op = "OpExecutionMode" /\ module[j].op = "OpEntryPoint") => j < i

\* A shader entry point with two modes, the first with operands.
C18_Witness ==
    /\ pc = "done"
    /\ Lowering
    /\ entry.execution_model = "Vertex"
    /\ entry.execution_modes = <<<<"LocalSize", <<8, 8, 1>>>>, <<"OriginUpperLeft", <<>>>>>>
    /\ Len(Emitted("OpExecutionMode")) = 2
    /\ Emitted("OpExecutionMode")[1].extra = <<8, 8, 1>>
    /\ Emitted("OpExecutionMode")[2].mode = "OriginUpperLeft"

\* The places in the module where an instruction of one of the kinds stands.
Places(ops) == {i \in 1..Len(module) : module[i].op \in ops}

(* C19: in the shader path every variable declaration, name and decoration *)
(* comes before the stub function is begun, none between OpFunction and    *)
(* OpFunctionEnd, and every id a length query reads or the call passes is  *)
(* a variable declared before the function or a length queried before the *)
(* call.                                                                   *)
C19_VariablesBeforeFunction ==
    ShaderLowering =>
        LET globals == Places({"OpVariable", "OpName", "OpDecorate"})
            begun == Places({"OpFunction"})
            DeclaredBefore(id, i) ==
                \E g \in Places({"OpVariable"}) : g < i /\ module[g].id = id
        IN  /\ \A g \in globals : \A f \in begun : g < f
            /\ \A g \in Places({"OpName", "OpDecorate"}) : DeclaredBefore(module[g].id, g)
            /\ \A l \in Places({"OpArrayLength"}) :
                \E f \in begun : f < l /\ DeclaredBefore(module[l].ptr, f)
            /\ \A c \in Places({"OpFunctionCall"}) :
                \A a \in 1..Len(module[c].args) :
                    \/ \E f \in begun : f < c /\ DeclaredBefore(module[c].args[a], f)
                    \/ \E l \in Places({"OpArrayLength"}) :
                        l < c /\ module[l].id = module[c].args[a]

\* Two named and decorated variables, the first with a length query on it.
C19_Witness ==
    /\ pc = "done"
    /\ ShaderLowering
    /\ Len(Emitted("OpVariable")) = 2
    /\ Len(Emitted("OpName")) = 2
    /\ Len(Emitted("OpDecorate")) = 2
    /\ Len(Emitted("OpArrayLength")) = 1
    /\ Emitted("OpArrayLength")[1].ptr = Emitted("OpVariable")[1].id
    /\ Len(Emitted("OpFunctionCall")[1].args) = 3

(* C20: the shader stub is emitted as: OpFunction (void, no argument), one *)
(* OpLabel, the length queries in the order of the parameters they belong  *)
(* to, one OpFunctionCall of the real function, one OpReturn, one          *)
(* OpFunctionEnd, and then the one OpEntryPoint of that function.          *)
C20_StubOrder ==
    (ShaderLowering /\ pc \in {"modes", "done"}) =>
        LET begun == Places({"OpFunction"})
            f == CHOOSE i \in begun : TRUE
            n == Len(Emitted("OpArrayLength"))
            Unsized(t) == t.t = "Pointer" /\ t.pointee.t = "Adt" /\ ~t.pointee.sized
            tailed == SelectSeq(Emitted("OpVariable"), LAMBDA v : Unsized(v.ty))
        IN  /\ Cardinality(begun) = 1
            /\ module[f].ret = Void
            /\ module[f].fty = Function(Void, <<>>)
            /\ Len(module) >= f + n + 5
            /\ module[f + 1].op = "OpLabel"
            /\ n = Len(tailed)
            /\ \A k \in 1..n :
                /\ module[f + 1 + k].op = "OpArrayLength"
                /\ module[f + 1 + k].ptr = tailed[k].id
            /\ module[f + n + 2].op = "OpFunctionCall"
            /\ module[f + n + 2].ret = entry.entry_func.return_type
            /\ module[f + n + 3] = OpReturn
            /\ module[f + n + 4] = OpFunctionEnd
            /\ module[f + n + 5].op = "OpEntryPoint"
            /\ module[f + n + 5].fn = module[f].id
            /\ \A i \in (f + n + 6)..Len(module) : module[i].op = "OpExecutionMode"
            /\ \A i \in 1..(f - 1) : module[i].op \in {"OpVariable", "OpName", "OpDecorate"}

\* A stub with two length queries between its label and its call.
C20_Witness ==
    /\ pc = "done"
    /\ ShaderLowering
    /\ Len(Emitted("OpArrayLength")) = 2
    /\ Emitted("OpArrayLength")[1].ptr < Emitted("OpArrayLength")[2].ptr
    /\ Len(Emitted("OpEntryPoint")) = 1

\* The ascending-order report of parameter j of the entry point in hand.
OrderDiagHere(j) ==
    \E k \in 1..Len(CurrentDiags) :
        CurrentDiags[k] = Diag("Locations must appear in ascending order", ParamSpan(j))

(* C21: the cursors start afresh with each entry point.  With entry points *)
(* lowered one after another into one module, the first parameter of each  *)
(* meets no cursor, and every parameter meets, gets and is judged by the   *)
(* cursor that the earlier parameters of its own entry point give: 0, or   *)
(* one past the last inferred or accepted location of its class among      *)
(* them, as when the entry point is lowered alone.                         *)
C21_CursorFreshPerEntry ==
    (ShaderLowering /\ pc \in {"shader_loop", "modes", "done"}) =>
        /\ declared # <<>> => declared[1].before = NoLocations
        /\ \A j \in 1..Len(declared) :
            LET sc == declared[j].storage_class
                b == declared[j].spirv_binding
                mine == {i \in 1..(j - 1) :
                            /\ declared[i].storage_class = sc
                            /\ \/ declared[i].spirv_binding = InferredLocation
                               \/ /\ declared[i].spirv_binding.b = "Location"
                                  /\ ~OrderDiagHere(i)}
                cursor == IF mine = {} THEN U32(0)
                          ELSE U32WrappingInc(LocationOf(Max(mine)))
            IN  /\ CursorOf(declared[j].before, sc) = cursor
                /\ b = InferredLocation => (LocationOf(j) = cursor /\ ~OrderDiagHere(j))
                /\ b.b = "Location" =>
                    /\ LocationOf(j) = b.location
                    /\ OrderDiagHere(j) <=> U32Lt(b.location, cursor)

\* After an entry point that left the Input cursor at 2, an entry point
\* whose Input<Location 0> is accepted and whose `&` parameter then gets 1.
C21_Witness ==
    /\ pc = "done"
    /\ Len(compiled) = 1
    /\ compiled[1].entry.params = <<RefParam, HirParam(InputAt(Usize(0, 1)), <<>>, "in")>>
    /\ entry.params = <<HirParam(InputAt(Usize(0, 0)), <<>>, "in"), RefParam>>
    /\ Len(declared) = 2
    /\ ~OrderDiagHere(1)
    /\ LocationOf(1) = U32(0)
    /\ LocationOf(2) = U32(1)

(* C22: declaring one parameter's variable changes at most the cursor of   *)
(* the parameter's own storage class.  A parameter whose binding, when it  *)
(* is applied, is DescriptorSet or PushConstant changes no cursor and gets *)
(* no Location decoration; with DescriptorSet{set, binding} its variable   *)
(* gets exactly one DescriptorSet decoration of value set and exactly one  *)
(* Binding decoration of value binding.                                    *)
C22_OnlyOwnCursor ==
    \A j \in 1..Len(declared) :
        LET sc == declared[j].storage_class
            v == declared[j].variable
            b == declared[j].spirv_binding
            before == declared[j].before
            after == declared[j].after
        IN  /\ \A k \in (DOMAIN before \cup DOMAIN after) \ {sc} :
                /\ k \in DOMAIN before
                /\ k \in DOMAIN after
                /\ after[k] = before[k]
            /\ b.b \in {"DescriptorSet", "PushConstant"} =>
                /\ after = before
                /\ DecorationsOf(v, "Location") = <<>>
            /\ b.b = "DescriptorSet" =>
                /\ DecorationsOf(v, "DescriptorSet")
                     = <<OpDecorate(v, "DescriptorSet", <<b.set>>)>>
                /\ DecorationsOf(v, "Binding") = <<OpDecorate(v, "Binding", <<b.binding>>)>>
            /\ b.b # "DescriptorSet" =>
                /\ DecorationsOf(v, "DescriptorSet") = <<>>
                /\ DecorationsOf(v, "Binding") = <<>>

\* An Input<Location 1> that takes the Input cursor to 2, then a Bind<.., 1, 2>
\* that leaves it there and gets its two decorations.
C22_Witness ==
    /\ pc = "done"
    /\ Len(declared) = 2
    /\ declared[1].spirv_binding = Location(U32(1))
    /\ declared[1].before = NoLocations
    /\ CursorOf(declared[1].after, "Input") = U32(2)
    /\ declared[2].spirv_binding = DescriptorSet(U32(1), U32(2))
    /\ declared[2].after = declared[1].after
    /\ Len(DecorationsOf(declared[2].variable, "DescriptorSet")) = 1
    /\ Len(DecorationsOf(declared[2].variable, "Binding")) = 1

(* C23: in a shader lowering that reports no diagnostic, no two variables  *)
(* of one storage class carry the same Location value, whatever mix of     *)
(* explicit and inferred locations the parameters use, and every assigned  *)
(* location is strictly below the cursor its class ends with.              *)
C23_NoCollision ==
    (ShaderLowering /\ pc \in {"modes", "done"} /\ diags = <<>>) =>
        /\ \A i, j \in 1..Len(declared) :
            ( /\ i # j
              /\ declared[i].storage_class = declared[j].storage_class
              /\ HasLocation(i)
              /\ HasLocation(j) ) => LocationOf(i) # LocationOf(j)
        /\ \A j \in 1..Len(declared) :
            HasLocation(j) =>
                U32Lt(LocationOf(j), CursorOf(decoration_locations, declared[j].storage_class))

(* C24: whenever the shader stub is emitted, the call to the real function *)
(* passes as many arguments as the real function's type has argument type  *)
(* slots: the loop over the parameters has taken every slot, for a         *)
(* parameter or for the length of an unsized tail.                         *)
C24_CallArity ==
    (ShaderLowering /\ pc \in {"modes", "done"}) =>
        LET calls == Emitted("OpFunctionCall")
        IN  /\ Len(calls) = 1
            /\ Len(calls[1].args) = Len(entry.entry_func.arguments)
            /\ arg_types = Len(entry.entry_func.arguments)

(* C25: the location bookkeeping is exact.  The Location a type resolves   *)
(* to and the Location decoration are the numeric parameter declared on    *)
(* the type, not its low 32 bits, and after an accepted explicit           *)
(* Location(n) or an inferred location n the class cursor is n + 1, never  *)
(* a wrapped value, also for n = 2^32 - 1.                                 *)
C25_ExactLocations ==
    \A j \in 1..Len(declared) :
        LET b == declared[j].spirv_binding
            after == CursorOf(declared[j].after, declared[j].storage_class)
            OnePast(n) ==
                \/ n.lo < Limb - 1 /\ after = [hi |-> n.hi, lo |-> n.lo + 1]
                \/ n.lo = Limb - 1 /\ n.hi < Limb - 1 /\ after = [hi |-> n.hi + 1, lo |-> 0]
        IN  /\ ResolvedTo(j, "Location") =>
                LET c == entry.params[j].ty.consts[1]
                IN  /\ c.top = 0
                    /\ declared[j].resolved.binding.location = [hi |-> c.hi, lo |-> c.lo]
            /\ (b.b = "Location" /\ HasLocation(j)) => LocationOf(j) = b.location
            /\ (b.b = "Location" /\ ~OrderDiagAt(j)) => OnePast(b.location)
            /\ b = InferredLocation => OnePast(LocationOf(j))

====
